---- MODULE Spec2Model ----
(***************************************************************************)
(* A model of knuth.document (src/document.py): the Document and Metadata  *)
(* tables as one SQLAlchemy session sees them, the blob directory `data`,  *)
(* and the search index, under create / retrieve / update / delete /       *)
(* upload / index.                                                         *)
(*                                                                         *)
(* Strings are sequences of tokens (a character, or an indivisible piece   *)
(* such as an extension), so that strip, startswith and concatenation are  *)
(* computed and not assumed.  The session autoflushes: a query sees the    *)
(* rows the session has added or deleted, committed or not.                *)
(*                                                                         *)
(* Every operation is one step, but for SpecRace, where two runs of        *)
(* delete_document go statement by statement: `race` holds their locals.   *)
(***************************************************************************)
EXTENDS Integers, Sequences, FiniteSets, TLC

VARIABLES documents, metadata, blobs, index, committed, nextId, last, race

vars == <<documents, metadata, blobs, index, committed, nextId, last, race>>

\* ------------------------------------------------------------ bounds
\* Documents ever inserted (the id sequence stops there).
MaxDocs == 2
\* Metadata rows the session holds at once.
MaxMeta == 3

\* ------------------------------------------------------ program constants
\* Python's None in an integer column (Document.parent, a missing id).
NULL == -1

DOC_COLUMNS == <<"id", "type", "title", "author", "doi", "timestamp", "parent">>

UPLOAD_FOLDER == "data"

\* ------------------------------------------------------------ strings
\* None where a string is expected (a tag of None).
None == <<"None">>

Whitespace == {" "}

\* str(n) for the ids of the model.
ToStr(n) == <<CASE n = 0 -> "0" [] n = 1 -> "1" [] n = 2 -> "2" [] n = 3 -> "3"
                [] n = 4 -> "4" [] n = 5 -> "5" [] n = 6 -> "6" [] n = 7 -> "7"
                [] n = 8 -> "8" [] n = 9 -> "9">>

RECURSIVE LStrip(_)
LStrip(s) == IF s # <<>> /\ Head(s) \in Whitespace THEN LStrip(Tail(s)) ELSE s

RECURSIVE RStrip(_)
RStrip(s) ==
    IF s # <<>> /\ s[Len(s)] \in Whitespace THEN RStrip(SubSeq(s, 1, Len(s) - 1)) ELSE s

\* str.strip()
Strip(s) == RStrip(LStrip(s))

\* Python truthiness of a string or None.
Truthy(s) == s # None /\ s # <<>>

\* str.startswith
StartsWith(s, p) == Len(s) >= Len(p) /\ SubSeq(s, 1, Len(p)) = p

\* ------------------------------------------------------------ tables
\* The rows of a table in query order: Metadata is kept in insertion order,
\* Document rows are ordered by their row ordinal.
Metadata(document, key, value) == [document |-> document, key |-> key, value |-> value]

\* Document.query.filter_by(id=doc_id).first(): the set holds at most one row.
DocById(docs, doc_id) == {d \in docs : d.id = doc_id}

\* Document.query.filter_by(parent=current).all()
DocsByParent(docs, current) == {d \in docs : d.parent = current}

\* Metadata.query.filter_by(document=doc_id).all(), in query order.
MetaOf(md, doc_id) == SelectSeq(md, LAMBDA r : r.document = doc_id)

\* db.session.commit(): what the session holds becomes the committed state.
Commit(docs, md) == [documents |-> docs, metadata |-> md]

\* ------------------------------------------------------------ create
\* The Metadata rows create_document adds for `tags`, in order.
RECURSIVE TagRows(_, _)
TagRows(doc_id, tags) ==
    IF tags = <<>> THEN <<>>
    ELSE (IF Truthy(Head(tags))
            THEN <<Metadata(doc_id, "tag", Strip(Head(tags)))>>
            ELSE <<>>) \o TagRows(doc_id, Tail(tags))

\* Document(type, title, author, doi, None, parent): the row the insert makes.
\* The id comes from the table's sequence and the timestamp from the clock,
\* which the model reads as the insertion ordinal.
NewDocument(type, title, author, doi, parent) ==
    [row |-> nextId, id |-> nextId, type |-> type, title |-> title,
     author |-> author, doi |-> doi, timestamp |-> nextId, parent |-> parent]

CreateDocument(title, author, doi, tags, type, parent) ==
    /\ nextId <= MaxDocs
    /\ Len(metadata) + Len(TagRows(nextId, tags)) <= MaxMeta
    /\ documents' = documents \cup {NewDocument(type, title, author, doi, parent)}
    /\ metadata' = metadata \o TagRows(nextId, tags)
    /\ committed' = Commit(documents', metadata')
    /\ nextId' = nextId + 1
    /\ last' = [op |-> "create", id |-> nextId, ok |-> TRUE, tags |-> tags]
    /\ UNCHANGED <<blobs, index, race>>

CreateAttachment(parent, title, author, doi, tags) ==
    CreateDocument(title, author, doi, tags, "attach", parent)

\* ------------------------------------------------------------ update
\* setattr(doc, attr, attr_value) for every keyword argument: `attributes` is a
\* function from column names to values.  The ghost field `row` is not a column.
SetAttributes(doc, attributes) ==
    [c \in DOMAIN doc |-> IF c \in DOMAIN attributes THEN attributes[c] ELSE doc[c]]

\* An update that commits and returns the id whether or not a row was found.
UpdateReturnsId(doc_id, attributes) ==
    LET found == DocById(documents, doc_id) IN
    /\ documents' = (documents \ found)
                      \cup {SetAttributes(d, attributes) : d \in found}
    /\ committed' = Commit(documents', metadata)
    /\ last' = [op |-> "update", id |-> doc_id, ok |-> TRUE, ret |-> doc_id]
    /\ UNCHANGED <<metadata, blobs, index, nextId, race>>

UpdateDocument(doc_id, attributes) ==
    LET found == DocById(documents, doc_id) IN
    IF found # {}
      THEN /\ documents' = (documents \ found)
                             \cup {SetAttributes(d, attributes) : d \in found}
           /\ committed' = Commit(documents', metadata)
           /\ last' = [op |-> "update", id |-> doc_id, ok |-> TRUE, ret |-> doc_id]
           /\ UNCHANGED <<metadata, blobs, index, nextId, race>>
      ELSE /\ last' = [op |-> "update", id |-> doc_id, ok |-> TRUE, ret |-> NULL]
           /\ UNCHANGED <<documents, metadata, blobs, index, committed, nextId, race>>

\* ------------------------------------------------------------ delete
Ids(rows) == {d.id : d \in rows}

\* The while loop of delete_document, every order tmp.pop() can take: the set of
\* [docs, documents] it can end with.  Each query flushes the deletes before it,
\* so a row deleted as a child is not found again.
RECURSIVE Traverse(_, _, _)
Traverse(tmp, docs, rows) ==
    IF tmp = {} THEN {[docs |-> docs, documents |-> rows]}
    ELSE UNION { LET results == DocsByParent(rows, current) IN
                 Traverse((tmp \ {current}) \cup Ids(results),
                          docs \cup {current},
                          rows \ results)
               : current \in tmp }

\* The orders in which `for document_id in docs` can run through the set.
RECURSIVE Orders(_)
Orders(S) ==
    IF S = {} THEN {<<>>}
    ELSE UNION { {<<x>> \o o : o \in Orders(S \ {x})} : x \in S }

\* The query without its filter: the positions of every row of the table.
RowsOfEvery(md, doc_id, from) == [i \in 1..(Len(md) + 1 - from) |-> from + i - 1]

\* The positions in the Metadata table of the rows of `doc_id`, in query order.
RECURSIVE RowsOf(_, _, _)
RowsOf(md, doc_id, from) ==
    IF from > Len(md) THEN <<>>
    ELSE (IF md[from].document = doc_id THEN <<from>> ELSE <<>>)
            \o RowsOf(md, doc_id, from + 1)

RECURSIVE RowsOfAll(_, _)
RowsOfAll(md, order) ==
    IF order = <<>> THEN <<>>
    ELSE RowsOf(md, Head(order), 1) \o RowsOfAll(md, Tail(order))

\* os.unlink(os.path.join(UPLOAD_FOLDER, md.value)): OSError when no such file.
UnlinkFails(bl, name) == name \notin bl

\* The metadata pass of delete_document over the rows at positions `todo`:
\* unlink the blob of a filename row, then delete the row; an OSError ends it.
RECURSIVE Purge(_, _, _, _)
Purge(md, todo, deleted, bl) ==
    IF todo = <<>> THEN [deleted |-> deleted, blobs |-> bl, ok |-> TRUE]
    ELSE LET r == md[Head(todo)] IN
         IF r.key = "filename" /\ UnlinkFails(bl, r.value)
           THEN [deleted |-> deleted, blobs |-> bl, ok |-> FALSE]
           ELSE Purge(md, Tail(todo), deleted \cup {Head(todo)},
                      IF r.key = "filename" THEN bl \ {r.value} ELSE bl)

\* The table without the rows at the positions `deleted`.
RECURSIVE Without(_, _, _)
Without(md, deleted, from) ==
    IF from > Len(md) THEN <<>>
    ELSE (IF from \in deleted THEN <<>> ELSE <<md[from]>>)
            \o Without(md, deleted, from + 1)

\* The guard left out: every id is processed.
NeverRefused(doc_id) == FALSE

\* int(doc_id) == 0: the guard of delete_document.
Refused(doc_id) == doc_id = 0

DeleteDocument(doc_id) ==
    /\ UNCHANGED <<index, committed, nextId, race>>
    /\ IF Refused(doc_id)
         THEN /\ last' = [op |-> "delete", id |-> doc_id, ok |-> TRUE, refused |-> TRUE]
              /\ UNCHANGED <<documents, metadata, blobs>>
         ELSE \E t \in Traverse({doc_id}, {}, documents) :
                LET root == DocById(t.documents, doc_id) IN
                IF root = {}
                  \* db.session.delete(None) raises; the children stay deleted.
                  THEN /\ documents' = t.documents
                       /\ last' = [op |-> "delete", id |-> doc_id, ok |-> FALSE,
                                   refused |-> FALSE]
                       /\ UNCHANGED <<metadata, blobs>>
                  ELSE \E order \in Orders(t.docs) :
                         LET p == Purge(metadata, RowsOfAll(metadata, order), {}, blobs) IN
                         /\ documents' = t.documents \ root
                         /\ metadata' = Without(metadata, p.deleted, 1)
                         /\ blobs' = p.blobs
                         /\ last' = [op |-> "delete", id |-> doc_id, ok |-> p.ok,
                                     refused |-> FALSE]

\* ------------------------------------------------------------ index
\* The search index: a function from the ids it holds to their bodies; a body
\* is a function from field names to values, `meta` a function from keys.
\* es.exists(index="knuth", id=doc_id)
EsExists(idx, doc_id) == doc_id \in DOMAIN idx

\* A merge of two functions, the second winning.
Merge(a, b) ==
    [k \in DOMAIN a \cup DOMAIN b |-> IF k \in DOMAIN b THEN b[k] ELSE a[k]]

\* es.update(id=doc_id, body={'doc': patch}) on an entry the index holds: a
\* merge patch, nested in `meta`.
Patched(body, patch) ==
    [f \in DOMAIN body \cup DOMAIN patch |->
        IF f \notin DOMAIN patch THEN body[f]
        ELSE IF f = "meta" /\ f \in DOMAIN body THEN Merge(body[f], patch[f])
        ELSE patch[f]]

EsUpdate(idx, doc_id, patch) ==
    [idx EXCEPT ![doc_id] = Patched(idx[doc_id], patch)]

\* An upsert that keeps the tags the entry had and appends the new ones.
EsIndexAppendsTags(idx, doc_id, body) ==
    [i \in DOMAIN idx \cup {doc_id} |->
        IF i # doc_id THEN idx[i]
        ELSE IF doc_id \in DOMAIN idx /\ "tags" \in DOMAIN idx[doc_id]
          THEN [body EXCEPT !.tags = idx[doc_id].tags \o body.tags]
          ELSE body]

\* es.index(id=doc_id, body=body): create or replace.
EsIndex(idx, doc_id, body) ==
    [i \in DOMAIN idx \cup {doc_id} |-> IF i = doc_id THEN body ELSE idx[i]]

\* The tags and the meta dict index_document builds from the rows.
RECURSIVE IndexTags(_)
IndexTags(rows) ==
    IF rows = <<>> THEN <<>>
    ELSE (IF Head(rows).key = "tag" THEN <<Head(rows).value>> ELSE <<>>)
            \o IndexTags(Tail(rows))

RECURSIVE IndexMeta(_, _)
IndexMeta(rows, meta) ==
    IF rows = <<>> THEN meta
    ELSE IndexMeta(Tail(rows),
                   IF Head(rows).key = "tag" THEN meta
                   ELSE Merge(meta, (Head(rows).key :> Head(rows).value)))

\* A function with no argument: the empty dict.
EmptyDict == [k \in {} |-> <<>>]

IndexBody(document, rows) ==
    [type |-> document.type, author |-> document.author, title |-> document.title,
     doi |-> document.doi, timestamp |-> document.timestamp,
     meta |-> IndexMeta(rows, EmptyDict), tags |-> IndexTags(rows)]

\* index_document(es, document, metadata)
IndexDocument(document, rows) ==
    /\ index' = EsIndex(index, document.id, IndexBody(document, rows))
    /\ last' = [op |-> "index", id |-> document.id, ok |-> TRUE,
                document |-> document, rows |-> rows]
    /\ UNCHANGED <<documents, metadata, blobs, committed, nextId, race>>

\* index_document_by_id(es, doc_id): document.type of None raises.
IndexDocumentById(doc_id) ==
    IF DocById(documents, doc_id) = {}
      THEN /\ last' = [op |-> "index", id |-> doc_id, ok |-> FALSE]
           /\ UNCHANGED <<documents, metadata, blobs, index, committed, nextId, race>>
      ELSE \E d \in DocById(documents, doc_id) :
             IndexDocument(d, MetaOf(metadata, doc_id))

\* ------------------------------------------------------------ resolve
\* The rows Metadata.query.filter_by(key='filename', document=doc_id) finds.
FilenameRows(md, doc_id) ==
    SelectSeq(md, LAMBDA r : r.document = doc_id /\ r.key = "filename")

\* The folder scanned before the table is read.
ScanFirst(md, bl, doc_id) ==
    LET rows == FilenameRows(md, doc_id)
        scan == {f \in bl : StartsWith(f, ToStr(doc_id) \o <<".">>)} IN
    IF scan # {} THEN scan
    ELSE IF rows # <<>> THEN {Head(rows).value}
    ELSE {None}

\* get_filename(doc_id): the values it can return. The row's value when there is
\* one; else any blob os.listdir lists first among those starting with
\* str(doc_id) + '.'; else None.
get_filename(md, bl, doc_id) ==
    LET rows == FilenameRows(md, doc_id)
        scan == {f \in bl : StartsWith(f, ToStr(doc_id) \o <<".">>)} IN
    IF rows # <<>> THEN {Head(rows).value}
    ELSE IF scan # {} THEN scan
    ELSE {None}

\* ------------------------------------------------------------ upload
\* An uploaded file is [filename, info, content]: its name as tokens with "."
\* for each dot, the info dictionaries pdfminer finds in it (a sequence), and its
\* text as characters.

\* str.lower() of a token.
LowerToken(t) ==
    CASE t = "PDF" -> "pdf" [] t = "TXT" -> "txt" [] t = "PNG" -> "png"
      [] t = "Paper" -> "paper" [] OTHER -> t

Lower(s) == [i \in 1..Len(s) |-> LowerToken(s[i])]

Dots(s) == {i \in 1..Len(s) : s[i] = "."}

LastDot(s) == CHOOSE i \in Dots(s) : \A j \in Dots(s) : j <= i

\* filepath.filename.lower().rsplit('.', 1)[1], or str(doc_id) without a dot.
FileExt(filename, doc_id) ==
    IF Dots(filename) # {}
      THEN SubSeq(Lower(filename), LastDot(filename) + 1, Len(filename))
      ELSE ToStr(doc_id)

\* mimetypes.types_map['.' + fileext], None on a KeyError.
TypesMap(fileext) ==
    CASE fileext = <<"pdf">> -> <<"application/pdf">>
      [] fileext = <<"txt">> -> <<"text/plain">>
      [] fileext = <<"tex">> -> <<"application/x-tex">>
      [] fileext = <<"png">> -> <<"image/png">>
      [] OTHER -> None

NewFilename(filename, doc_id) == ToStr(doc_id) \o <<".">> \o FileExt(filename, doc_id)

PdfFields == <<"Producer", "Creator", "Title", "Keywords", "Subject">>

\* u'pdf.' + key.lower()
PdfKeyName(key) ==
    CASE key = "Producer" -> "pdf.producer" [] key = "Creator" -> "pdf.creator"
      [] key = "Title" -> "pdf.title" [] key = "Keywords" -> "pdf.keywords"
      [] key = "Subject" -> "pdf.subject"

TextExts == {<<"txt">>, <<"tex">>, <<"rst">>, <<"enl">>, <<"bib">>}

\* _add_metadata_row(doc_id, key, value): the rows it adds.
AddMetadataRow(doc_id, key, value) ==
    IF key # "" /\ Truthy(value) THEN <<Metadata(doc_id, key, value)>> ELSE <<>>

\* The loop over the PDF fields, from field number `k`: [metadata, index, ok].
\* doc.info[0] of an empty list raises IndexError, a field the dictionary lacks
\* raises KeyError (passed), one that does not decode is skipped, and es.update
\* raises when the index holds no entry for doc_id.
RECURSIVE PdfLoop(_, _, _, _, _)
PdfLoop(k, info, doc_id, md, idx) ==
    IF k > Len(PdfFields) THEN [metadata |-> md, index |-> idx, ok |-> TRUE]
    ELSE LET key == PdfFields[k] IN
         IF info = <<>> THEN [metadata |-> md, index |-> idx, ok |-> FALSE]
         ELSE IF key \notin DOMAIN info[1] THEN PdfLoop(k + 1, info, doc_id, md, idx)
         ELSE IF ~info[1][key].decodes THEN PdfLoop(k + 1, info, doc_id, md, idx)
         ELSE LET value == info[1][key].value
                  md2 == md \o AddMetadataRow(doc_id, PdfKeyName(key), value) IN
              IF ~EsExists(idx, doc_id)
                THEN [metadata |-> md2, index |-> idx, ok |-> FALSE]
                ELSE PdfLoop(k + 1, info, doc_id, md2,
                             EsUpdate(idx, doc_id,
                                      [meta |-> (PdfKeyName(key) :> value)]))

WordChars == {"a", "b"}

\* re.sub('\W', ' ', content): every character that is no word character
\* becomes a space.
SubNonWord(content) ==
    [i \in 1..Len(content) |-> IF content[i] \in WordChars THEN content[i] ELSE " "]

\* A commit in every outcome of the upload, raised or not.
CommitsAlways(ok, md) == Commit(documents, md)

\* db.session.commit() at the end of upload_doc: reached when no call raised.
UploadCommit(ok, md) == IF ok THEN Commit(documents, md) ELSE committed

UploadDocument(file, doc_id) ==
    LET fileext == FileExt(file.filename, doc_id)
        mimetype == TypesMap(fileext)
        new_filename == NewFilename(file.filename, doc_id)
        md1 == metadata \o <<Metadata(doc_id, "filename", new_filename)>>
                 \o (IF Truthy(mimetype)
                       THEN <<Metadata(doc_id, "mimetype", mimetype)>> ELSE <<>>)
        pdf == IF mimetype = <<"application/pdf">>
                 THEN PdfLoop(1, file.info, doc_id, md1, index)
                 ELSE [metadata |-> md1, index |-> index, ok |-> TRUE]
        txt == IF pdf.ok /\ fileext \in TextExts
                 THEN IF EsExists(pdf.index, doc_id)
                        THEN [index |-> EsUpdate(pdf.index, doc_id,
                                          [content |-> SubNonWord(file.content)]),
                              ok |-> TRUE]
                        ELSE [index |-> pdf.index, ok |-> FALSE]
                 ELSE [index |-> pdf.index, ok |-> pdf.ok]
        synced == IF txt.ok /\ EsExists(txt.index, doc_id)
                    THEN EsUpdate(txt.index, doc_id,
                                  [filename |-> new_filename, mimetype |-> mimetype,
                                   orig_filename |-> file.filename])
                    ELSE txt.index
    IN  /\ Len(pdf.metadata) <= MaxMeta
        /\ blobs' = blobs \cup {new_filename}
        /\ metadata' = pdf.metadata
        /\ index' = synced
        /\ committed' = UploadCommit(txt.ok, pdf.metadata)
        /\ last' = [op |-> "upload", id |-> doc_id, ok |-> txt.ok,
                    ret |-> new_filename, file |-> file]
        /\ UNCHANGED <<documents, nextId, race>>

\* ------------------------------------------------------------ retrieve
\* The keys of `data` when the metadata loop of retrieve_document runs.
DataKeys(doc) ==
    {"tags", "attachments", "meta", "format_date"}
      \cup {DOC_COLUMNS[i] : i \in 1..Len(DOC_COLUMNS)}
      \cup (IF doc.parent \notin {NULL, 0} THEN {"parent_title"} ELSE {})

RECURSIVE RetrieveMeta(_, _, _)
RetrieveMeta(rows, keys, meta) ==
    IF rows = <<>> THEN meta
    ELSE RetrieveMeta(Tail(rows), keys,
                      IF Head(rows).key # "tag" /\ Head(rows).key \notin keys
                        THEN Merge(meta, (Head(rows).key :> Head(rows).value))
                        ELSE meta)

\* `if doc.parent: parent_doc.title` raises when the parent has no row.
RetrieveFails(doc_id) ==
    \/ DocById(documents, doc_id) = {}
    \/ \E d \in DocById(documents, doc_id) :
         d.parent \notin {NULL, 0} /\ DocById(documents, d.parent) = {}

\* data['parent_title'], set only for a document with a parent.
ParentTitle(d) ==
    IF d.parent \in {NULL, 0} \/ DocById(documents, d.parent) = {} THEN EmptyDict
    ELSE LET p == CHOOSE p \in DocById(documents, d.parent) : TRUE IN
         ("parent_title" :> p.title)

\* retrieve_document(doc_id, with_attachments=False): the records it can return
\* (format_date, the timestamp as the database module prints it, left out).
RetrieveFlat(doc_id) ==
    { Merge([id |-> d.id, type |-> d.type, title |-> d.title, author |-> d.author,
             doi |-> d.doi, timestamp |-> d.timestamp, parent |-> d.parent,
             tags |-> IndexTags(MetaOf(metadata, doc_id)),
             meta |-> RetrieveMeta(MetaOf(metadata, doc_id), DataKeys(d), EmptyDict),
             attachments |-> <<>>, filename |-> f],
            ParentTitle(d))
      : d \in DocById(documents, doc_id), f \in get_filename(metadata, blobs, doc_id) }

\* Rows in query order.
RECURSIVE InOrder(_)
InOrder(rows) ==
    IF rows = {} THEN <<>>
    ELSE LET first == CHOOSE d \in rows : \A e \in rows : d.row <= e.row IN
         <<first>> \o InOrder(rows \ {first})

RECURSIVE Attachments(_)
Attachments(children) ==
    IF children = <<>> THEN {<<>>}
    ELSE {<<r>> \o rest : r \in RetrieveFlat(Head(children).id),
                          rest \in Attachments(Tail(children))}

RetrieveDocument(doc_id, with_attachments) ==
    /\ UNCHANGED <<documents, metadata, blobs, index, committed, nextId, race>>
    /\ LET children == InOrder(DocsByParent(documents, doc_id)) IN
       IF \/ RetrieveFails(doc_id)
          \/ with_attachments /\ \E c \in DocsByParent(documents, doc_id) : RetrieveFails(c.id)
         THEN last' = [op |-> "retrieve", id |-> doc_id, ok |-> FALSE]
         ELSE \E r \in RetrieveFlat(doc_id) :
              \E a \in (IF with_attachments THEN Attachments(children) ELSE {<<>>}) :
                last' = [op |-> "retrieve", id |-> doc_id, ok |-> TRUE,
                         ret |-> [r EXCEPT !.attachments = a]]

\* ------------------------------------------------------------ inputs
Title == <<"t">>

PngFile == [filename |-> <<"x", ".", "png">>, info |-> <<>>, content |-> <<>>]

NoExtFile == [filename |-> <<"README">>, info |-> <<>>, content |-> <<>>]

\* The ids a caller may pass: the sentinel, the ids handed out, one never used.
DocIds == 0..(MaxDocs + 1)

\* The two runs of delete_document SpecRace follows.
Procs == {1, 2}

\* The locals of a run of delete_document that has not been called.
NotCalled ==
    [pc |-> "idle", doc_id |-> NULL, tmp |-> {}, docs |-> {}, todo |-> <<>>,
     found |-> {}, mds |-> <<>>, reads |-> {}, unlinks |-> {}]

\* No run of delete_document under way.
Idle == [procs |-> [p \in Procs |-> NotCalled], overlap |-> FALSE]

\* The state after construction: empty tables, an empty folder, an empty index.
Init ==
    /\ documents = {}
    /\ metadata = <<>>
    /\ blobs = {}
    /\ index = EmptyDict
    /\ committed = Commit({}, <<>>)
    /\ nextId = 1
    /\ last = [op |-> "init", id |-> NULL, ok |-> TRUE]
    /\ race = Idle

\* ------------------------------------------------- Spec: the three stores
\* Create, attach, upload and delete, with no entry in the index.
Create ==
    \E tags \in {<<>>, << <<"a">> >>} :
        CreateDocument(Title, <<>>, <<>>, tags, "doc", NULL)

Attach ==
    \E parent \in Ids(documents) \cup {0} :
        CreateAttachment(parent, Title, <<>>, <<>>, <<>>)

Upload ==
    \E file \in {PngFile, NoExtFile}, doc_id \in Ids(documents) :
        UploadDocument(file, doc_id)

Delete == \E doc_id \in DocIds : DeleteDocument(doc_id)

Next == Create \/ Attach \/ Upload \/ Delete

Spec == Init /\ [][Next]_vars

\* ------------------------------------------------- SpecUpdate: the hierarchy
\* Create, attach, update and delete of documents without metadata.
\* Keyword arguments of update_document, drawn from DOC_COLUMNS.
Attributes ==
    {("parent" :> p) : p \in {NULL} \cup 0..MaxDocs}
      \cup {("title" :> <<"u">>), ("timestamp" :> 0), ("id" :> 0),
            ("type" :> "doc") @@ ("author" :> <<"u">>) @@ ("doi" :> <<"u">>)}

CreateRoot == CreateDocument(Title, <<>>, <<>>, <<>>, "doc", NULL)

AttachTo ==
    \E parent \in Ids(documents) \cup {0} :
        CreateAttachment(parent, Title, <<>>, <<>>, <<>>)

\* The primary key rejects an id another row holds: such a call is left out.
Update ==
    \E doc_id \in DocIds, attributes \in Attributes :
        /\ "id" \in DOMAIN attributes => attributes["id"] \notin Ids(documents)
        /\ UpdateDocument(doc_id, attributes)

DeleteAny == \E doc_id \in DocIds : DeleteDocument(doc_id)

NextUpdate == CreateRoot \/ AttachTo \/ Update \/ DeleteAny

SpecUpdate == Init /\ [][NextUpdate]_vars

\* ------------------------------------------------- SpecTags: tags
\* Documents created with tag lists of every shape, and retrieved.
TagInputs == {None, <<>>, <<" ">>, <<"a">>, <<" ", "b", " ">>, <<"a", " ", "b">>}

\* Entries of a tag list.
MaxTags == 2

TagLists == UNION {[1..n -> TagInputs] : n \in 0..MaxTags}

CreateTagged ==
    \E tags \in TagLists, parent \in {NULL} \cup Ids(documents) :
        CreateDocument(Title, <<>>, <<>>, tags,
                       IF parent = NULL THEN "doc" ELSE "attach", parent)

Retrieve ==
    \E doc_id \in DocIds, with_attachments \in BOOLEAN :
        RetrieveDocument(doc_id, with_attachments)

NextTags == CreateTagged \/ Retrieve

SpecTags == Init /\ [][NextTags]_vars

\* ------------------------------------------------- SpecResolve: get_filename
\* get_filename reads the Metadata table and the folder: the table and the
\* folder are drawn from the rows and the files below, stale files included.
ResolveNames ==
    {<<"1", ".", "pdf">>, <<"1", ".", "txt">>, <<"2", ".", "pdf">>, <<"11", ".", "pdf">>}

ResolveRows ==
    {Metadata(1, "filename", <<"1", ".", "pdf">>),
     Metadata(1, "filename", <<"1", ".", "txt">>),
     Metadata(2, "filename", <<"2", ".", "pdf">>),
     Metadata(1, "mimetype", <<"application/pdf">>),
     Metadata(2, "tag", <<"a">>)}

\* Rows of the table get_filename reads.
MaxResolveRows == 2

InitResolve ==
    /\ documents = {}
    /\ metadata \in UNION {[1..n -> ResolveRows] : n \in 0..MaxResolveRows}
    /\ blobs \in SUBSET ResolveNames
    /\ index = EmptyDict
    /\ committed = Commit({}, metadata)
    /\ nextId = 1
    /\ last = [op |-> "init", id |-> NULL, ok |-> TRUE]
    /\ race = Idle

Resolve ==
    \E doc_id \in 1..3 :
    \E f \in get_filename(metadata, blobs, doc_id) :
        /\ last' = [op |-> "resolve", id |-> doc_id, ok |-> TRUE, ret |-> f]
        /\ UNCHANGED <<documents, metadata, blobs, index, committed, nextId, race>>

NextResolve == Resolve

SpecResolve == InitResolve /\ [][NextResolve]_vars

\* ------------------------------------------------------------ properties
\* The ids of `ids` and of every transitive descendant, along the parent links.
RECURSIVE SubtreeIds(_, _)
SubtreeIds(rows, ids) ==
    LET more == ids \cup {d.id : d \in {e \in rows : e.parent \in ids}} IN
    IF more = ids THEN ids ELSE SubtreeIds(rows, more)

\* A step of DeleteDocument(id) with id # 0 whose document exists / does not.
DeletesExisting ==
    last'.op = "delete" /\ last'.id # 0 /\ DocById(documents, last'.id) # {}

DeletesMissing ==
    last'.op = "delete" /\ last'.id # 0 /\ DocById(documents, last'.id) = {}

\* The blobs named "<id>.<ext>".
BlobsOf(bl, id) == {b \in bl : StartsWith(b, ToStr(id) \o <<".">>)}

\* C1 (tree integrity): after DeleteDocument(D) for an existing D # 0 there is
\* no Document row for D or a transitive descendant, no Metadata row
\* referencing one of them, and no blob named after one of their ids.
C1_TreeIntegrity ==
    [][DeletesExisting =>
        \A i \in SubtreeIds(documents, {last'.id}) :
            /\ DocById(documents', i) = {}
            /\ \A k \in 1..Len(metadata') : metadata'[k].document # i
            /\ BlobsOf(blobs', i) = {}]_vars

FilenamePositions(md, ids) ==
    {k \in 1..Len(md) : md[k].key = "filename" /\ md[k].document \in ids}

\* Some filename row of the subtree names a blob that is absent when the delete
\* comes to unlink it: absent from the folder, or named by an earlier row too.
BlobMissing(md, bl, ids) ==
    \E k \in FilenamePositions(md, ids) :
        \/ md[k].value \notin bl
        \/ \E j \in FilenamePositions(md, ids) : j # k /\ md[j].value = md[k].value

\* C3 (a missing blob does not abort the delete): when a filename row of the
\* subtree names an absent blob, the delete still deletes every other Metadata
\* row of the subtree and unlinks every other blob its filename rows name: a
\* row that is left is a filename row whose blob is absent, and no blob a
\* filename row of the subtree named is left.
C3_MissingBlobDoesNotAbort ==
    [][LET sub == SubtreeIds(documents, {last'.id}) IN
       (DeletesExisting /\ BlobMissing(metadata, blobs, sub)) =>
        /\ \A k \in 1..Len(metadata') :
              metadata'[k].document \in sub =>
                  metadata'[k].key = "filename" /\ metadata'[k].value \notin blobs'
        /\ \A k \in FilenamePositions(metadata, sub) :
              metadata[k].value \notin blobs']_vars

\* C4 (not-found delete): DeleteDocument(id), id # 0, for an id without a
\* Document row raises no error and deletes no row outside the subtree of id.
C4_NotFoundDeleteIsNoOp ==
    [][DeletesMissing =>
        /\ last'.ok
        /\ \A d \in documents :
              d.id \notin SubtreeIds(documents, {last'.id}) => d \in documents']_vars

\* The entries of a tag list that are non-empty after trimming, trimmed.
RECURSIVE TrimmedNonEmpty(_)
TrimmedNonEmpty(tags) ==
    IF tags = <<>> THEN <<>>
    ELSE (IF Head(tags) = None \/ Strip(Head(tags)) = <<>>
            THEN <<>> ELSE <<Strip(Head(tags))>>) \o TrimmedNonEmpty(Tail(tags))

\* C5 (tag round-trip): RetrieveDocument of a document just created returns as
\* tags the input entries that are non-empty after trimming, trimmed, in the
\* input order; and no tag row has an empty value.
C5_TagRoundTrip ==
    /\ last.op = "create" =>
          \A r \in RetrieveFlat(last.id) : r.tags = TrimmedNonEmpty(last.tags)
    /\ \A k \in 1..Len(metadata) : metadata[k].key = "tag" => metadata[k].value # <<>>

\* C6 (at most one filename row): every document id has at most one Metadata
\* row with key `filename`.
C6_OneFilenameRow ==
    \A id \in DocIds : Cardinality(FilenamePositions(metadata, {id})) <= 1

\* C7 (filename rows name existing blobs): the value of every Metadata row with
\* key `filename` is the name of a blob in the folder.
C7_FilenameNamesBlob ==
    \A k \in 1..Len(metadata) : metadata[k].key = "filename" => metadata[k].value \in blobs

\* The parent of a document counts as none when it is None or 0, as in
\* `if doc.parent:`.
IsRoot(d) == d.parent \in {NULL, 0}

\* The ancestor chain of `d` ends at a root within `fuel` links.
RECURSIVE EndsAtRoot(_, _, _)
EndsAtRoot(rows, d, fuel) ==
    \/ IsRoot(d)
    \/ /\ fuel > 0
       /\ \E p \in DocById(rows, d.parent) : EndsAtRoot(rows, p, fuel - 1)

\* C8 (forest): every Document with a parent references an existing Document,
\* and its ancestor chain ends at a root: no dangling parent, no cycle.
C8_Forest ==
    \A d \in documents : EndsAtRoot(documents, d, Cardinality(documents))

\* C9 (immutable identity): a Document row keeps its id and its timestamp in
\* every step.
C9_ImmutableIdentity ==
    [][\A d \in documents : \A e \in documents' :
          d.row = e.row => (d.id = e.id /\ d.timestamp = e.timestamp)]_vars

\* C10 (filename precedence): get_filename(X) returns the value of the first
\* filename row of X when X has one, whatever blobs start with "X."; without
\* such a row it returns a blob starting with "X.", and None when there is none.
C10_FilenamePrecedence ==
    last.op = "resolve" =>
        LET rows == FilenamePositions(metadata, {last.id})
            scan == BlobsOf(blobs, last.id) IN
        IF rows # {}
          THEN \E k \in rows : (\A j \in rows : k <= j) /\ last.ret = metadata[k].value
          ELSE IF scan # {} THEN last.ret \in scan
          ELSE last.ret = None

\* get_filename has returned the row's value for an id with a filename row while
\* two blobs start with "<id>." and one of them is not the one the row names.
C10_Witness ==
    /\ last.op = "resolve"
    /\ FilenamePositions(metadata, {last.id}) # {}
    /\ Cardinality(BlobsOf(blobs, last.id)) >= 2
    /\ \E b \in BlobsOf(blobs, last.id) : b # last.ret

\* ------------------------------------------- SpecRetitle, SpecFrame: four stores
\* Documents with a blob, metadata rows and an index entry: retitled by ids
\* that exist and ids that do not (SpecRetitle), attached to one another and
\* deleted (SpecFrame).
UploadPlain == \E doc_id \in Ids(documents) : UploadDocument(NoExtFile, doc_id)

IndexExisting == \E doc_id \in Ids(documents) : IndexDocumentById(doc_id)

Retitle == \E doc_id \in DocIds : UpdateDocument(doc_id, ("title" :> <<"u">>))

NextRetitle == CreateRoot \/ UploadPlain \/ IndexExisting \/ Retitle

SpecRetitle == Init /\ [][NextRetitle]_vars

\* The first upload of a document.
UploadOnce ==
    \E doc_id \in Ids(documents) :
        FilenameRows(metadata, doc_id) = <<>> /\ UploadDocument(NoExtFile, doc_id)

NextFrame == CreateRoot \/ AttachTo \/ UploadOnce \/ IndexExisting \/ DeleteAny

SpecFrame == Init /\ [][NextFrame]_vars

TxtFile == [filename |-> <<"notes", ".", "TXT">>, info |-> <<>>,
            content |-> <<"a", "-", "b">>]

\* The ids index_document and upload_doc are called with.
UpsertIds == {1, 2}

UpsertDocuments ==
    {[row |-> i, id |-> i, type |-> "doc", title |-> Title, author |-> <<>>,
      doi |-> <<>>, timestamp |-> i, parent |-> NULL] : i \in UpsertIds}

UpsertRows ==
    {Metadata(1, "tag", <<"a">>), Metadata(1, "k", <<"v">>), Metadata(1, "k", <<"w">>)}

\* Rows of the list index_document is given.
MaxUpsertRows == 2

IndexAny ==
    \E document \in UpsertDocuments,
       rows \in UNION {[1..n -> UpsertRows] : n \in 0..MaxUpsertRows} :
        IndexDocument(document, rows)

PatchByUpload ==
    \E file \in {TxtFile, PngFile}, doc_id \in UpsertIds :
        UploadDocument(file, doc_id)

NextUpsert == IndexAny \/ PatchByUpload

SpecUpsert == Init /\ [][NextUpsert]_vars

RstFile == [filename |-> <<"notes", ".", "rst">>, info |-> <<>>,
            content |-> <<"a", "-", "b">>]

PdfInfo(info) == [filename |-> <<"Paper", ".", "PDF">>, info |-> info, content |-> <<>>]

\* A field of the info dictionary as str() finds it.
Decoded(value) == [decodes |-> TRUE, value |-> value]

Undecodable == [decodes |-> FALSE, value |-> <<>>]

\* PDFs with a Title, with an undecodable Title before a Subject, with a
\* dictionary that has none of the fields, and with an empty Title.
PdfFiles ==
    {PdfInfo(<<[Title |-> Decoded(<<"T">>)]>>),
     PdfInfo(<<[Title |-> Undecodable, Subject |-> Decoded(<<"S">>)]>>),
     PdfInfo(<<[Author |-> Decoded(<<"A">>)]>>),
     PdfInfo(<<[Title |-> Decoded(<<>>)]>>)}

UploadAny ==
    \E file \in {NoExtFile, RstFile, TxtFile} \cup PdfFiles, doc_id \in Ids(documents) :
        UploadDocument(file, doc_id)

\* One document: an upload reads and writes the rows and the entry of its own
\* id only.
CreateOne == documents = {} /\ CreateRoot

NextUpload == CreateOne \/ IndexExisting \/ UploadAny

SpecUpload == Init /\ [][NextUpload]_vars


\* The Metadata rows a step adds to the table.
NewRows == SubSeq(metadata', Len(metadata) + 1, Len(metadata'))

\* A step of UploadDocument.
Uploads == last'.op = "upload"

\* C13 (extension fallback): UploadDocument(file, n) of a file whose name has
\* no '.' stores the blob as "n.n" and adds a filename row with that value;
\* when the extension has no MIME type, the upload adds no mimetype row and
\* raises no error.
C13_ExtensionFallback ==
    [][Uploads =>
        LET n == last'.id
            fileext == FileExt(last'.file.filename, n) IN
        /\ Dots(last'.file.filename) = {} =>
              /\ last'.ret = ToStr(n) \o <<".">> \o ToStr(n)
              /\ last'.ret \in blobs'
              /\ \E k \in 1..Len(NewRows) :
                    NewRows[k] = Metadata(n, "filename", last'.ret)
        /\ TypesMap(fileext) = None =>
              /\ \A k \in 1..Len(NewRows) : NewRows[k].key # "mimetype"
              /\ last'.ok]_vars

\* C14 (non-fatal PDF extraction): the upload of a PDF with an info dictionary
\* completes, and it adds the row `pdf.<field>` with the field's value for
\* each of the five fields that is present and decodable, and no such row for
\* a field that is absent or undecodable.
C14_NonFatalPdf ==
    [][(Uploads /\ TypesMap(FileExt(last'.file.filename, last'.id)) = <<"application/pdf">>
               /\ last'.file.info # <<>>) =>
        LET info == last'.file.info[1] IN
        /\ last'.ok
        /\ \A i \in 1..Len(PdfFields) :
              LET key == PdfFields[i] IN
              IF key \in DOMAIN info /\ info[key].decodes
                THEN \E k \in 1..Len(NewRows) :
                        NewRows[k] = Metadata(last'.id, PdfKeyName(key), info[key].value)
                ELSE \A k \in 1..Len(NewRows) : NewRows[k].key # PdfKeyName(key)]_vars

\* C16 (partial updates need an entry): UploadDocument changes the index only
\* for an id the index holds an entry for; for an id it holds none for, the
\* upload leaves the index as it is and completes.
C16_PartialUpdatesNeedEntry ==
    [][Uploads =>
        /\ index' # index => EsExists(index, last'.id)
        /\ ~EsExists(index, last'.id) => (last'.ok /\ index' = index)]_vars

\* C17 (single commit after the index calls): an upload writes the blob in
\* every outcome; it commits the tables as they are at its end when no call
\* raised, and commits nothing when an index call raised.
C17_SingleCommit ==
    [][Uploads =>
        /\ last'.ret \in blobs'
        /\ IF last'.ok THEN committed' = Commit(documents', metadata')
                       ELSE committed' = committed]_vars

\* An upload of a PDF has raised in the index call for its Title: the blob is
\* in the folder, the filename row and the pdf.title row are in the session,
\* and what is committed holds no row of that document.
C17_Witness ==
    /\ last.op = "upload" /\ ~last.ok
    /\ last.ret \in blobs
    /\ \E k \in 1..Len(metadata) : metadata[k] = Metadata(last.id, "filename", last.ret)
    /\ \E k \in 1..Len(metadata) : metadata[k] = Metadata(last.id, "pdf.title", <<"T">>)
    /\ \A k \in 1..Len(committed.metadata) : committed.metadata[k].document # last.id


\* ------------------------------------------------- SpecRetrieve: retrieve_document
\* Documents uploaded to more than once, and retrieved.
UploadAgain ==
    \E file \in {NoExtFile, PngFile}, doc_id \in Ids(documents) :
        UploadDocument(file, doc_id)

NextRetrieve == CreateRoot \/ UploadAgain \/ Retrieve

SpecRetrieve == Init /\ [][NextRetrieve]_vars

\* C15 (first-seen wins): the meta map RetrieveDocument returns holds, for
\* every key of a non-tag Metadata row of the document, the value of the
\* first row with that key in query order.
C15_FirstSeenWins ==
    (last.op = "retrieve" /\ last.ok) =>
        LET rows == MetaOf(metadata, last.id) IN
        \A k \in 1..Len(rows) :
            (rows[k].key # "tag" /\ \A j \in 1..(k - 1) : rows[j].key # rows[k].key) =>
                /\ rows[k].key \in DOMAIN last.ret.meta
                /\ last.ret.meta[rows[k].key] = rows[k].value


\* C18 (delete terminates and succeeds): DeleteDocument(id) of an existing
\* document ends its traversal having visited exactly the documents of the
\* subtree of id, and completes without an error.
C18_DeleteSucceeds ==
    [][DeletesExisting =>
        /\ \A t \in Traverse({last'.id}, {}, documents) :
              t.docs = SubtreeIds(documents, {last'.id})
        /\ last'.ok]_vars


\* C20 (frame of delete): DeleteDocument(id) leaves every Document row outside
\* the subtree of id in the table, the Metadata rows of those documents as they
\* are and in their order, the blobs their filename rows name in the folder,
\* and the index as it is, the entries of the deleted documents included.
C20_DeleteFrame ==
    [][last'.op = "delete" =>
        LET sub == SubtreeIds(documents, {last'.id})
            kept == Ids(documents) \ sub
            Kept(r) == r.document \in kept IN
        /\ \A d \in documents : d.id \in kept => d \in documents'
        /\ SelectSeq(metadata', Kept) = SelectSeq(metadata, Kept)
        /\ \A k \in FilenamePositions(metadata, kept) :
              metadata[k].value \in blobs => metadata[k].value \in blobs'
        /\ index' = index]_vars

\* A delete has removed an indexed document with a filename row and a blob,
\* while another document has a row, a filename row, a blob and an entry.
C20_Witness ==
    /\ last.op = "delete" /\ last.ok /\ ~last.refused
    /\ DocById(documents, last.id) = {}
    /\ EsExists(index, last.id)
    /\ "meta" \in DOMAIN index[last.id] /\ "filename" \in DOMAIN index[last.id].meta
    /\ \E d \in documents :
          /\ EsExists(index, d.id)
          /\ \E k \in FilenamePositions(metadata, {d.id}) : metadata[k].value \in blobs


\* ------------------------------------------------- SpecRace: two deletes
\* Two runs of delete_document on the same tables and folder, statement by
\* statement, once the documents have been created and uploaded to.  A query
\* sees what the other run has deleted; the delete of a row the other run has
\* deleted already either does nothing or raises.
Running(r) == r.pc \notin {"idle", "done", "failed"}

OtherProc(p) == CHOOSE q \in Procs : q # p

\* The locals of run `p` become `r`; the runs overlap once both are under way.
Goto(p, r) ==
    /\ race' = [procs |-> [race.procs EXCEPT ![p] = r],
                overlap |-> race.overlap
                              \/ (Running(r) /\ Running(race.procs[OtherProc(p)]))]
    /\ last' = [op |-> "race", id |-> NULL, ok |-> TRUE]
    /\ UNCHANGED <<index, committed, nextId>>

\* The root's row left in the table.
RootKept(rows, found) == rows

\* db.session.delete(Document.query.filter_by(id=doc_id).first())
RootDeleted(rows, found) == rows \ found

\* delete_document(doc_id) is called: the guard, then tmp = set([doc_id]).
DeleteStart(p, doc_id) ==
    /\ race.procs[p].pc = "idle"
    /\ p = 2 => race.procs[1].pc # "idle"
    /\ Goto(p, IF Refused(doc_id)
                 THEN [NotCalled EXCEPT !.pc = "done", !.doc_id = doc_id]
                 ELSE [NotCalled EXCEPT !.pc = "loop", !.doc_id = doc_id,
                                        !.tmp = {doc_id}])
    /\ UNCHANGED <<documents, metadata, blobs>>

\* current = tmp.pop(); results = Document.query.filter_by(parent=current).all()
DeleteLoopQuery(p) ==
    LET r == race.procs[p] IN
    /\ r.pc = "loop"
    /\ \E current \in r.tmp :
          Goto(p, [r EXCEPT !.tmp = r.tmp \ {current}, !.docs = r.docs \cup {current},
                            !.found = DocsByParent(documents, current),
                            !.pc = "children"])
    /\ UNCHANGED <<documents, metadata, blobs>>

\* The outcomes of db.session.delete for rows of which one is `gone`, deleted
\* by the other run since the query: it raises, or it does nothing.
Raises(gone) == IF gone THEN BOOLEAN ELSE {FALSE}

\* for result in results: tmp.add(result.id); db.session.delete(result);
\* then the test of the while loop.
DeleteChildren(p) ==
    LET r == race.procs[p]
        tmp == r.tmp \cup Ids(r.found) IN
    /\ r.pc = "children"
    /\ \E raises \in Raises(r.found \ documents # {}) :
          Goto(p, IF raises THEN [r EXCEPT !.pc = "failed"]
                  ELSE [r EXCEPT !.tmp = tmp, !.found = {},
                                 !.pc = IF tmp # {} THEN "loop" ELSE "root"])
    /\ documents' = documents \ r.found
    /\ UNCHANGED <<metadata, blobs>>

\* Document.query.filter_by(id=doc_id).first(), the argument of the delete.
DeleteRootQuery(p) ==
    LET r == race.procs[p] IN
    /\ r.pc = "root"
    /\ Goto(p, [r EXCEPT !.found = DocById(documents, r.doc_id), !.pc = "delete"])
    /\ UNCHANGED <<documents, metadata, blobs>>

\* db.session.delete(<the root's row>), None raising; then `for document_id in
\* docs` fixes its order.
DeleteRoot(p) ==
    LET r == race.procs[p] IN
    /\ r.pc = "delete"
    /\ \E raises \in Raises(r.found \ documents # {}), order \in Orders(r.docs) :
          Goto(p, IF raises \/ r.found = {} THEN [r EXCEPT !.pc = "failed"]
                  ELSE [r EXCEPT !.found = {}, !.todo = order, !.pc = "metadata"])
    /\ documents' = RootDeleted(documents, r.found)
    /\ UNCHANGED <<metadata, blobs>>

\* mds = Metadata.query.filter_by(document=document_id).all(), for the next id.
DeleteMetadataQuery(p) ==
    LET r == race.procs[p] IN
    /\ r.pc = "metadata"
    /\ IF r.todo = <<>> THEN Goto(p, [r EXCEPT !.pc = "done"])
       ELSE LET mds == MetaOf(metadata, Head(r.todo)) IN
            Goto(p, [r EXCEPT !.todo = Tail(r.todo), !.mds = mds,
                              !.reads = r.reads \cup
                                  {mds[k] : k \in FilenamePositions(mds, {Head(r.todo)})},
                              !.pc = IF mds = <<>> THEN "metadata" ELSE "row"])
    /\ UNCHANGED <<documents, metadata, blobs>>

\* if md.key == 'filename': os.unlink(os.path.join(UPLOAD_FOLDER, md.value))
DeleteUnlink(p) ==
    LET r == race.procs[p] IN
    /\ r.pc = "row"
    /\ Head(r.mds).key = "filename"
    /\ Goto(p, [r EXCEPT !.unlinks = r.unlinks \cup {Head(r.mds).value},
                         !.pc = IF UnlinkFails(blobs, Head(r.mds).value)
                                  THEN "failed" ELSE "unlinked"])
    /\ blobs' = blobs \ {Head(r.mds).value}
    /\ UNCHANGED <<documents, metadata>>

\* db.session.delete(md), for the first row of the table equal to md.
DeleteRow(p) ==
    LET r == race.procs[p]
        at == {k \in 1..Len(metadata) : metadata[k] = Head(r.mds)}
        next == IF Len(r.mds) = 1 THEN "metadata" ELSE "row" IN
    /\ r.pc = "unlinked" \/ (r.pc = "row" /\ Head(r.mds).key # "filename")
    /\ \E raises \in Raises(at = {}) :
          Goto(p, IF raises THEN [r EXCEPT !.pc = "failed"]
                  ELSE [r EXCEPT !.mds = Tail(r.mds), !.pc = next])
    /\ metadata' = IF at = {} THEN metadata
                   ELSE Without(metadata, {CHOOSE k \in at : \A j \in at : k <= j}, 1)
    /\ UNCHANGED <<documents, blobs>>


\* The tables and the folder are built before the first delete is called: one
\* tree, so that the subtrees of the two deletes can overlap.  The
\* deletes are called with 0 and the ids of the documents built, which are the
\* committed ones, since delete_document does not commit.
RaceCreate == race = Idle /\ documents = {} /\ CreateRoot

RaceAttach ==
    /\ race = Idle
    /\ \E parent \in Ids(documents) : CreateAttachment(parent, Title, <<>>, <<>>, <<>>)

RaceUpload == race = Idle /\ UploadPlain

RaceDelete ==
    \E p \in Procs :
        \/ \E doc_id \in Ids(committed.documents) \cup {0} : DeleteStart(p, doc_id)
        \/ DeleteLoopQuery(p)
        \/ DeleteChildren(p)
        \/ DeleteRootQuery(p)
        \/ DeleteRoot(p)
        \/ DeleteMetadataQuery(p)
        \/ DeleteUnlink(p)
        \/ DeleteRow(p)

NextRace == RaceCreate \/ RaceAttach \/ RaceUpload \/ RaceDelete

SpecRace == Init /\ [][NextRace]_vars


====
